---- MODULE Spec2Model ----
(***************************************************************************)
(* The chat router of Meal Mind (utils/meal_router_agent.py): the graph    *)
(* that MealRouterAgent.__init__ compiles, its nodes and routing           *)
(* functions, and run_chat_stream, which starts one turn on a checkpointed *)
(* thread.  The hosted model, the retrieval tool and the meal store are    *)
(* collaborators: every answer they can give is a nondeterministic choice. *)
(***************************************************************************)
EXTENDS Integers, Sequences, FiniteSets, TLC

\* ------------------------------------------------------------------ bounds
\* The longest plan a planning completion holds.
MaxPlan == 2
\* The most tool calls one completion holds.
MaxBatch == 2
\* The super-steps the graph runs before it stops a run with GraphRecursionError.
\* run_chat_stream passes no recursion_limit, so the library's default (25)
\* applies; the model runs with a smaller budget.
RecursionLimit == 8
\* The model asks for no more tool calls than fit in this many tool outputs.
MaxToolOutputs == 3
\* The length of the longer plans, which are drawn over LongPlanActions only.
MaxLongPlan == 3

\* The longest completion, in tokens, the extraction is applied to.
MaxText == 6

\* The most users one run of the batch workflow finds.
MaxUsers == 2

\* The super-steps the graph library allows one run of the batch workflow.
WorkflowRecursionLimit == 14

\* MealPlanWorkflow.max_retries.
max_retries == 3

\* ------------------------------------------------------------------ values
None == << >>

Queries == {"q1", "q2"}

KnownActions ==
  {"meal_adjustment", "meal_retrieval", "calorie_estimation", "general_chat", "recipe_lookup"}

\* A step's params stand for the part of the request the step is about: the
\* i-th step of a planned list carries the i-th part.
ParamNames == << "p1", "p2", "p3", "p4" >>

RECURSIVE SeqsUpTo(_, _)
SeqsUpTo(S, n) ==
  IF n = 0 THEN {<< >>}
  ELSE LET shorter == SeqsUpTo(S, n - 1)
       IN shorter \cup {Append(s, x) : s \in {t \in shorter : Len(t) = n - 1}, x \in S}

StepsOf(actions) ==
  [i \in DOMAIN actions |-> [action |-> actions[i], params |-> ParamNames[i]]]

\* An action value that is none of the five.
UnknownAction == "unknown_action"

StepActions == KnownActions \cup {UnknownAction}

\* Stands in the action field of a plan element that is no JSON object (a
\* string, a number): reading its action raises AttributeError.
NotAnObject == "not_an_object"

\* The two actions whose interplay across a plan needs three steps to show.
LongPlanActions == {"meal_adjustment", "calorie_estimation"}

\* What the planning completion can parse to when it is a JSON list: any list
\* of steps up to MaxPlan, and the lists over LongPlanActions up to MaxLongPlan.
PlanOutputs ==
  {StepsOf(a) : a \in SeqsUpTo(StepActions, MaxPlan)}
    \cup {StepsOf(a) : a \in {b \in SeqsUpTo(LongPlanActions, MaxLongPlan) : Len(b) > MaxPlan}}

\* What it can parse to when it is a single JSON object.
ObjectOutputs == {p \in PlanOutputs : Len(p) = 1}

\* What it can parse to when it is a JSON value that is no list and no object.
ScalarOutput == [action |-> NotAnObject, params |-> ParamNames[1]]

ToolCall == [tool : {"search_foods"}, query : Queries]

\* Stands in the query field of a tool call that has none: the extraction
\* keeps any JSON object whose tool is search_foods.
NoQuery == "no_query"

QuerylessCall == [tool |-> "search_foods", query |-> NoQuery]

HasQuery(call) == call.query # NoQuery

\* The non-empty lists of tool calls one completion can carry.  A list with a
\* call that has no query ends with it, node_execute_tools reading no call
\* behind the one it raises on, and has no or one call in front of it.
Batches ==
  (SeqsUpTo(ToolCall, MaxBatch) \ {<< >>})
    \cup {<< QuerylessCall >>} \cup {<< c, QuerylessCall >> : c \in ToolCall}

RetrievalResults == {"data", "error"}

\* What _retrieve_context gives for a query: q1 stands for a query the
\* retrieval answers, q2 for one on which it raises, the error text being the
\* result.  A turn looks a query up at most once.
retrieve_context(q) == IF q = "q2" THEN "error" ELSE "data"

\* How process_request ends: the record and the day's total were written; no
\* meal plan or no meal of the type for the date; the write of the record
\* failed; the model call or the parse of its answer raised.
AdjustOutcomes == {"success", "not_found", "write_failed", "error"}

\* How a run ends.
Ended == {"END", "GraphRecursionError", "UpstreamError", "AttributeError", "KeyError"}

VARIABLES
  pc,                  \* the node about to run, or how the run ended
  steps,               \* super-steps the graph has run in this turn
  confirmed,           \* the previous assistant message asked to confirm and the utterance affirms
  plan,
  current_step_index,
  retrieved_data,
  adjustment_result,
  recipe_result,
  final_messages,
  monitoring_warnings,
  response,
  tool_calls,
  tool_outputs,
  active_node,
  lookups,             \* per query, the calls of _retrieve_context in this turn
  invoked,             \* the collaborators the last node called
  store_written,       \* the meal store was written in this turn
  cleared,             \* this turn's fresh-plan reset cleared a value it found
  completion,          \* what this turn's planning completion was
  dispatched,          \* the step indexes decide_route sent to a handler in this turn
  adjust_log,          \* the status messages process_request returned in this turn
  write_attempts,      \* the calls of update_meal_detail in this turn
  yielded,             \* the non-status chunks run_chat_stream yielded in this turn
  content,             \* a completion a tool-capable handler received
  handler_return,      \* what the handler returned for it, once it has
  db,                  \* one day of the meal store: its meal records and its total
  requests,            \* per turn, its running call of process_request
  last_writer,         \* the turn whose call wrote the day's total last
  wf,                  \* the MealPlanGenerationState of the batch workflow
  wf_pc,               \* the workflow node about to run, or how the run ended
  wf_course            \* steps run, attempts per user, and what the graph does
                       \* with the writes of a routing function

router ==
  << pc, steps, confirmed, plan, current_step_index, retrieved_data, adjustment_result,
     recipe_result, final_messages, monitoring_warnings, response, tool_calls,
     tool_outputs, active_node, lookups, invoked, store_written, cleared, completion,
     dispatched, adjust_log, write_attempts, yielded >>

extraction == << content, handler_return >>

store == << db, requests, last_writer >>

workflow == << wf, wf_pc, wf_course >>

vars == << router, extraction, store, workflow >>

\* What the chat router's graph run leaves alone.
aside == << extraction, store, workflow >>

\* What a turn records of its own course.
course == << completion, dispatched, adjust_log, write_attempts >>

\* ------------------------------------------------- the other components
\* The extraction has no completion at hand.
ExtractionAtRest ==
  /\ content = << >>
  /\ handler_return = << >>

\* The meal types of the day's records, in the order the store returns them.
SlotOrder == << "breakfast", "dinner" >>

Slots == {SlotOrder[i] : i \in DOMAIN SlotOrder}

\* The turns that can run process_request on the same day at once.
Procs == {"turn_a", "turn_b"}

\* The calories of a nutrition object, in hundredths: a number, no such field,
\* or a value that is not a number (a string such as "450 kcal", or nutrition
\* given as a list).
Nutritions ==
  {[kind |-> "number", value |-> 250], [kind |-> "number", value |-> 104],
   [kind |-> "missing", value |-> 0], [kind |-> "text", value |-> 0]}

\* The day as plan generation stored it: the total is the sum of the meals.
InitialDay ==
  [meals |-> [s \in Slots |-> [kind |-> "number", value |-> 250]],
   total |-> 250 * Cardinality(Slots)]

IdleCall ==
  [pc |-> "idle", slot |-> SlotOrder[1], meal_data |-> [kind |-> "missing", value |-> 0],
   snapshot |-> << >>, status |-> "none", new_daily_total |-> 0,
   wrote_record |-> FALSE, wrote_total |-> FALSE, read_failed |-> FALSE,
   stale |-> FALSE, alone |-> FALSE]

\* No turn is adjusting a meal of the day; the store is out of the picture.
StoreAtRest ==
  /\ db = << >>
  /\ requests = << >>
  /\ last_writer = ""

\* run's initial_state.
InitialWorkflowState ==
  [users_to_process |-> 0, current_user_index |-> 0, current_user |-> << >>,
   user_data |-> << >>, generated_plan |-> FALSE, success_count |-> 0,
   failure_count |-> 0, retry_count |-> 0]

\* The batch workflow has not been run and has no state.
WorkflowAtRest ==
  /\ wf = << >>
  /\ wf_pc = "not_started"
  /\ wf_course = << >>

\* The chat router has no turn running.
RouterAtRest ==
  /\ pc = "END"
  /\ steps = 0
  /\ confirmed = FALSE
  /\ plan = << >>
  /\ current_step_index = 0
  /\ retrieved_data = None
  /\ adjustment_result = None
  /\ recipe_result = None
  /\ final_messages = << >>
  /\ monitoring_warnings = << >>
  /\ response = [adjustment |-> None, warnings |-> << >>, retrieved |-> None,
                 recipe |-> None, message |-> << >>, confirm_prompt |-> FALSE,
                 fallback |-> FALSE]
  /\ tool_calls = << >>
  /\ tool_outputs = << >>
  /\ active_node = ""
  /\ lookups = [q \in Queries |-> 0]
  /\ invoked = {}
  /\ store_written = FALSE
  /\ cleared = FALSE
  /\ completion = "none"
  /\ dispatched = << >>
  /\ adjust_log = << >>
  /\ write_attempts = 0
  /\ yielded = << >>

EmptyResponse ==
  [adjustment |-> None, warnings |-> << >>, retrieved |-> None, recipe |-> None,
   message |-> << >>, confirm_prompt |-> FALSE, fallback |-> FALSE]

\* A value a previous turn left in the checkpoint: all a later turn's check
\* needs of it is that it is not this turn's.
OldValue == [params |-> "earlier", origin |-> "old"]

Stale(s) == [i \in DOMAIN s |-> OldValue]

\* ------------------------------------------------------------- routing
\* A broken table that has no handler for an action it does not know.
DecideRouteDropsUnknown(pl, idx) ==
  IF idx >= Len(pl) THEN "generate_response"
  ELSE IF pl[idx + 1].action = NotAnObject THEN "AttributeError"
  ELSE IF pl[idx + 1].action \in KnownActions THEN pl[idx + 1].action
  ELSE "generate_response"

decide_route(pl, idx) ==
  IF idx >= Len(pl) THEN "generate_response"
  ELSE IF pl[idx + 1].action = NotAnObject THEN "AttributeError"
  ELSE IF pl[idx + 1].action \in KnownActions THEN pl[idx + 1].action
  ELSE "general_chat"

decide_next_step_after_action(calls, pl, idx) ==
  IF calls # << >> THEN "execute_tools"
  ELSE IF idx < Len(pl) /\ pl[idx + 1].action = "calorie_estimation" THEN "planner"
  ELSE "generate_response"

return_from_tools(active) ==
  IF active # "" THEN active ELSE "general_chat"

\* ------------------------------------------------------------- the turn
\* A broken initial_state that names no final_messages key, so that the
\* checkpoint's value stays.
InitialStateWithoutMessages ==
  /\ plan' = << >>
  /\ current_step_index' = 0
  /\ retrieved_data' = None
  /\ adjustment_result' = None
  /\ final_messages' = Stale(final_messages)
  /\ monitoring_warnings' = << >>
  /\ response' = EmptyResponse
  /\ tool_calls' = << >>
  /\ tool_outputs' = << >>
  /\ active_node' = ""

\* The keys of run_chat_stream's initial_state, which overwrite the thread's
\* checkpointed values.
InitialState ==
  /\ plan' = << >>
  /\ current_step_index' = 0
  /\ retrieved_data' = None
  /\ adjustment_result' = None
  /\ final_messages' = << >>
  /\ monitoring_warnings' = << >>
  /\ response' = EmptyResponse
  /\ tool_calls' = << >>
  /\ tool_outputs' = << >>
  /\ active_node' = ""

\* run_chat_stream starts a turn on the thread: a key initial_state does not
\* name (recipe_result) keeps the value the checkpoint holds.
run_chat_stream ==
  /\ pc \in Ended
  /\ pc' = "load_preferences"
  /\ steps' = 0
  /\ confirmed' \in BOOLEAN
  /\ InitialState
  /\ recipe_result' = Stale(recipe_result)
  /\ lookups' = [q \in Queries |-> 0]
  /\ invoked' = {}
  /\ store_written' = FALSE
  /\ cleared' = FALSE
  /\ completion' = "none"
  /\ dispatched' = << >>
  /\ adjust_log' = << >>
  /\ write_attempts' = 0
  /\ yielded' = << >>
  /\ UNCHANGED aside

CanStep == steps < RecursionLimit

\* The graph stops a run that has used its step budget without reaching END.
GraphRecursionError ==
  /\ pc \notin Ended
  /\ ~CanStep
  /\ pc' = "GraphRecursionError"
  /\ UNCHANGED << steps, confirmed, plan, current_step_index, retrieved_data,
                  adjustment_result, recipe_result, final_messages, monitoring_warnings,
                  response, tool_calls, tool_outputs, active_node, lookups, invoked,
                  store_written, cleared, course >>
  /\ UNCHANGED yielded
  /\ UNCHANGED aside

node_load_preferences ==
  /\ pc = "load_preferences"
  /\ CanStep
  /\ pc' = "planner"
  /\ steps' = steps + 1
  /\ invoked' = {"store_read"}
  /\ UNCHANGED << confirmed, plan, current_step_index, retrieved_data, adjustment_result,
                  recipe_result, final_messages, monitoring_warnings, response,
                  tool_calls, tool_outputs, active_node, lookups, store_written, cleared,
                  course >>
  /\ UNCHANGED yielded
  /\ UNCHANGED aside

\* ------------------------------------------------------------- planner
\* The fresh-plan branch is taken on "not state.get('plan')".
FreshPlanBranch == plan = << >>

\* A broken reset that leaves the recipe of an earlier request in place.
ResetKeepsRecipe ==
  /\ recipe_result' = recipe_result
  /\ adjustment_result' = None
  /\ retrieved_data' = None
  /\ tool_calls' = << >>
  /\ tool_outputs' = << >>

\* The reset of the transient state at the head of the fresh-plan branch.
ResetTransientState ==
  /\ recipe_result' = None
  /\ adjustment_result' = None
  /\ retrieved_data' = None
  /\ tool_calls' = << >>
  /\ tool_outputs' = << >>

FallbackPlan == << [action |-> "general_chat", params |-> "user_input"] >>

\* The plan the fresh branch stores.  A completion that parses to a list is
\* the plan; one that parses to anything else is wrapped into a one-element
\* list; the fallback is stored when the model call raises ("failed": also
\* when there is no model) or the text is no JSON ("invalid").
GeneratePlan ==
  \/ /\ completion' = "list"
     /\ plan' \in PlanOutputs
  \/ /\ completion' = "object"
     /\ plan' \in ObjectOutputs
  \/ /\ completion' = "scalar"
     /\ plan' = << ScalarOutput >>
  \/ /\ completion' \in {"invalid", "failed"}
     /\ plan' = FallbackPlan

\* A broken loop-back that also runs the reset, as if it stood before the test.
PlannerReentryResets ==
  /\ current_step_index' = current_step_index + 1
  /\ invoked' = {}
  /\ recipe_result' = None
  /\ adjustment_result' = None
  /\ retrieved_data' = None
  /\ UNCHANGED << plan, tool_calls, tool_outputs, cleared, completion >>

\* A broken loop-back that starts over once the last step is done.
PlannerReentryWraps ==
  /\ current_step_index' =
       IF current_step_index + 1 >= Len(plan) THEN 0 ELSE current_step_index + 1
  /\ invoked' = {}
  /\ UNCHANGED << plan, retrieved_data, adjustment_result, recipe_result, tool_calls,
                  tool_outputs, cleared, completion >>

\* The loop-back branch.
PlannerReentry ==
  /\ current_step_index' = current_step_index + 1
  /\ invoked' = {}
  /\ UNCHANGED << plan, retrieved_data, adjustment_result, recipe_result, tool_calls,
                  tool_outputs, cleared, completion >>

node_planner ==
  /\ pc = "planner"
  /\ CanStep
  /\ steps' = steps + 1
  /\ IF FreshPlanBranch
     THEN /\ ResetTransientState
          /\ GeneratePlan
          /\ current_step_index' = 0
          /\ invoked' = {"model"}
          /\ cleared' = (\/ recipe_result # None \/ adjustment_result # None
                         \/ retrieved_data # None \/ tool_outputs # << >>)
     ELSE PlannerReentry
  /\ pc' = decide_route(plan', current_step_index')
  /\ dispatched' = IF pc' \in KnownActions
                   THEN Append(dispatched, current_step_index')
                   ELSE dispatched
  /\ UNCHANGED << confirmed, final_messages, monitoring_warnings, response, active_node,
                  lookups, store_written, adjust_log, write_attempts >>
  /\ UNCHANGED yielded
  /\ UNCHANGED aside

\* ------------------------------------------------------------- handlers
CurrentStep == plan[current_step_index + 1]

\* The calls of update_meal_detail one process_request makes: none when the
\* meal is not found or the model's answer is unusable, else one.
UpdateCalls(outcome) == IF outcome \in {"success", "write_failed"} THEN 1 ELSE 0

\* What process_request returns and does: the result's status, the message
\* text (one per outcome), the writes of the meal record it tried, and whether
\* it called the model.
process_request(outcome) ==
  [status |-> IF outcome = "success" THEN "success" ELSE "error",
   text |-> outcome,
   updates |-> UpdateCalls(outcome),
   model |-> outcome # "not_found"]

node_adjust_meal ==
  /\ pc = "meal_adjustment"
  /\ CanStep
  /\ steps' = steps + 1
  /\ \E outcome \in AdjustOutcomes, warned \in BOOLEAN :
       LET result == process_request(outcome)
           msg == [params |-> CurrentStep.params, status |-> result.text, origin |-> "new"]
           prev == IF adjustment_result = None THEN << >> ELSE adjustment_result[1].message
       IN /\ adjustment_result' =
               << [status |-> result.status, message |-> Append(prev, msg),
                   new_daily_total |-> (outcome = "success"), origin |-> "new"] >>
          /\ store_written' = (store_written \/ outcome = "success")
          /\ monitoring_warnings' = IF warned THEN << [origin |-> "new"] >> ELSE << >>
          /\ invoked' = {"store_read"} \cup (IF result.model THEN {"model"} ELSE {})
                          \cup (IF result.updates > 0 THEN {"store_write"} ELSE {})
          /\ adjust_log' = Append(adjust_log, msg)
          /\ write_attempts' = write_attempts + result.updates
  /\ pc' = "planner"
  /\ UNCHANGED << confirmed, plan, current_step_index, retrieved_data, recipe_result,
                  final_messages, response, tool_calls, tool_outputs, active_node, lookups,
                  cleared, completion, dispatched >>
  /\ UNCHANGED yielded
  /\ UNCHANGED aside

node_retrieve_meals ==
  /\ pc = "meal_retrieval"
  /\ CanStep
  /\ steps' = steps + 1
  /\ retrieved_data' =
       Append(retrieved_data, [params |-> CurrentStep.params, origin |-> "new"])
  /\ invoked' = {"store_read"}
  /\ pc' = "planner"
  /\ UNCHANGED << confirmed, plan, current_step_index, adjustment_result, recipe_result,
                  final_messages, monitoring_warnings, response, tool_calls, tool_outputs,
                  active_node, lookups, store_written, cleared, course >>
  /\ UNCHANGED yielded
  /\ UNCHANGED aside

node_provide_recipe ==
  /\ pc = "recipe_lookup"
  /\ CanStep
  /\ steps' = steps + 1
  /\ recipe_result' = << [params |-> CurrentStep.params, origin |-> "new"] >>
  /\ invoked' = {"model"}
  /\ pc' = "planner"
  /\ UNCHANGED << confirmed, plan, current_step_index, retrieved_data, adjustment_result,
                  final_messages, monitoring_warnings, response, tool_calls, tool_outputs,
                  active_node, lookups, store_written, cleared, course >>
  /\ UNCHANGED yielded
  /\ UNCHANGED aside

\* The completion of a tool-capable handler: the model call fails, or the
\* completion carries tool calls, or it is the terminal message.
ModelFails(node) ==
  /\ pc' = "UpstreamError"
  /\ UNCHANGED << plan, current_step_index, retrieved_data, adjustment_result,
                  recipe_result, final_messages, tool_calls, active_node, invoked >>

\* A broken handler that does not record itself as the one awaiting the tools.
RecordsNoActiveNode(node) == active_node' = active_node

\* The handler's first statement: it records itself in active_node.
RecordsActiveNode(node) == active_node' = node

\* A broken return that hands back the tool calls without the plan.
EmitsToolCallsLosesPlan(node) ==
  /\ tool_calls' \in Batches
  /\ Len(tool_outputs) + Len(tool_calls') <= MaxToolOutputs
  /\ plan' = << >>
  /\ UNCHANGED << final_messages, current_step_index >>

EmitsToolCalls(node) ==
  /\ tool_calls' \in Batches
  /\ Len(tool_outputs) + Len(tool_calls') <= MaxToolOutputs
  /\ UNCHANGED << final_messages, plan, current_step_index >>

TerminalCompletion(node) ==
  /\ tool_calls' = << >>
  /\ final_messages' =
       << [from |-> node, index |-> current_step_index, origin |-> "new"] >>
  /\ UNCHANGED << plan, current_step_index >>

node_estimate_calories ==
  /\ pc = "calorie_estimation"
  /\ CanStep
  /\ steps' = steps + 1
  /\ \/ ModelFails("calorie_estimation")
     \/ /\ RecordsActiveNode("calorie_estimation")
        /\ recipe_result' = None
        /\ adjustment_result' = None
        /\ retrieved_data' = None
        /\ \/ EmitsToolCalls("calorie_estimation")
           \/ TerminalCompletion("calorie_estimation")
        /\ invoked' = {"model"}
        /\ pc' = decide_next_step_after_action(tool_calls', plan', current_step_index')
  /\ UNCHANGED << confirmed, monitoring_warnings, response, tool_outputs, lookups,
                  store_written, cleared, course >>
  /\ UNCHANGED yielded
  /\ UNCHANGED aside

node_general_chat ==
  /\ pc = "general_chat"
  /\ CanStep
  /\ steps' = steps + 1
  /\ \/ ModelFails("general_chat")
     \/ /\ RecordsActiveNode("general_chat")
        /\ \/ EmitsToolCalls("general_chat")
           \/ TerminalCompletion("general_chat")
        /\ invoked' = {"model"}
        /\ pc' = decide_next_step_after_action(tool_calls', plan', current_step_index')
        /\ UNCHANGED << retrieved_data, adjustment_result, recipe_result >>
  /\ UNCHANGED << confirmed, monitoring_warnings, response, tool_outputs, lookups,
                  store_written, cleared, course >>
  /\ UNCHANGED yielded
  /\ UNCHANGED aside

\* ------------------------------------------------------------- tool loop
ExecutedQueries(outs) == {<< outs[i].tool, outs[i].query >> : i \in DOMAIN outs}

\* A broken loop that checks a call against the earlier outputs only, not
\* against the calls before it in the same list.
RECURSIVE ToolOutputsForgetsBatch(_, _, _)
ToolOutputsForgetsBatch(calls, executed, answers) ==
  IF calls = << >> THEN << >>
  ELSE LET call == Head(calls)
           key == << "search_foods", call.query >>
       IN << [tool |-> "search_foods", query |-> call.query,
              result |-> IF key \in executed THEN "already_searched" ELSE Head(answers)] >>
          \o ToolOutputsForgetsBatch(Tail(calls), executed, Tail(answers))

\* The outputs node_execute_tools appends for `calls`, given the pairs already
\* executed and, per call, the answer _retrieve_context would give.
RECURSIVE ToolOutputs(_, _, _)
ToolOutputs(calls, executed, answers) ==
  IF calls = << >> THEN << >>
  ELSE LET call == Head(calls)
           key == << "search_foods", call.query >>
       IN IF key \in executed
          THEN << [tool |-> "search_foods", query |-> call.query,
                   result |-> "already_searched"] >>
               \o ToolOutputs(Tail(calls), executed, Tail(answers))
          ELSE << [tool |-> "search_foods", query |-> call.query,
                   result |-> Head(answers)] >>
               \o ToolOutputs(Tail(calls), executed \cup {key}, Tail(answers))

RealLookups(outs, q) ==
  Cardinality({i \in DOMAIN outs : outs[i].query = q /\ outs[i].result # "already_searched"})

\* The calls in front of the first call that has no query: the loop works
\* through them before call['query'] raises.
RECURSIVE CallsBeforeKeyError(_)
CallsBeforeKeyError(calls) ==
  IF calls = << >> \/ ~HasQuery(Head(calls)) THEN << >>
  ELSE << Head(calls) >> \o CallsBeforeKeyError(Tail(calls))

node_execute_tools ==
  /\ pc = "execute_tools"
  /\ CanStep
  /\ steps' = steps + 1
  /\ LET done == CallsBeforeKeyError(tool_calls)
     IN LET answers == [i \in 1 .. Len(done) |-> retrieve_context(done[i].query)]
            outputs == ToolOutputs(done, ExecutedQueries(tool_outputs), answers)
          IN /\ lookups' = [q \in Queries |-> lookups[q] + RealLookups(outputs, q)]
             /\ invoked' = IF \E q \in Queries : RealLookups(outputs, q) > 0
                           THEN {"retrieval"} ELSE {}
             /\ IF Len(done) = Len(tool_calls)
                THEN /\ tool_outputs' = tool_outputs \o outputs
                     /\ tool_calls' = << >>
                     /\ pc' = return_from_tools(active_node)
                ELSE /\ pc' = "KeyError"
                     /\ UNCHANGED << tool_outputs, tool_calls >>
  /\ UNCHANGED << confirmed, plan, current_step_index, retrieved_data, adjustment_result,
                  recipe_result, final_messages, monitoring_warnings, response,
                  active_node, store_written, cleared, course, yielded >>
  /\ UNCHANGED aside

\* ------------------------------------------------------------- response
\* A broken aggregator without the generic string for an empty text.
ResponseTextWithoutFallback(parts) == parts

\* The text node_generate_response stores: the parts in their fixed order, or
\* the generic string when there is none.
ResponseText(parts) ==
  IF parts = EmptyResponse THEN [EmptyResponse EXCEPT !.fallback = TRUE] ELSE parts

\* run_chat_stream yields the response of the generate_response update when it
\* is not empty.
node_generate_response ==
  /\ pc = "generate_response"
  /\ CanStep
  /\ steps' = steps + 1
  /\ LET parts ==
           [adjustment |-> adjustment_result,
            warnings |-> IF adjustment_result # None THEN monitoring_warnings ELSE << >>,
            retrieved |-> retrieved_data,
            recipe |-> recipe_result,
            message |-> IF final_messages # << >> THEN << final_messages[1] >> ELSE << >>,
            confirm_prompt |-> (final_messages # << >> /\ active_node = "calorie_estimation"),
            fallback |-> FALSE]
     IN response' = ResponseText(parts)
  /\ yielded' = IF response' # EmptyResponse THEN Append(yielded, "response") ELSE yielded
  /\ invoked' = {}
  /\ pc' = "extract_feedback"
  /\ UNCHANGED << confirmed, plan, current_step_index, retrieved_data, adjustment_result,
                  recipe_result, final_messages, monitoring_warnings, tool_calls,
                  tool_outputs, active_node, lookups, store_written, cleared, course >>
  /\ UNCHANGED aside

\* The last node of the graph; when the stream ends run_chat_stream yields the
\* "no output" text if it has yielded no response.
node_extract_feedback ==
  /\ pc = "extract_feedback"
  /\ CanStep
  /\ steps' = steps + 1
  /\ invoked' = {"model"}
  /\ pc' = "END"
  /\ yielded' = IF yielded = << >> THEN << "no_output" >> ELSE yielded
  /\ UNCHANGED << confirmed, plan, current_step_index, retrieved_data, adjustment_result,
                  recipe_result, final_messages, monitoring_warnings, response, tool_calls,
                  tool_outputs, active_node, lookups, store_written, cleared, course >>
  /\ UNCHANGED aside

Init ==
  /\ pc = "load_preferences"
  /\ steps = 0
  /\ confirmed \in BOOLEAN
  /\ plan = << >>
  /\ current_step_index = 0
  /\ retrieved_data = None
  /\ adjustment_result = None
  /\ recipe_result = None
  /\ final_messages = << >>
  /\ monitoring_warnings = << >>
  /\ response = EmptyResponse
  /\ tool_calls = << >>
  /\ tool_outputs = << >>
  /\ active_node = ""
  /\ lookups = [q \in Queries |-> 0]
  /\ invoked = {}
  /\ store_written = FALSE
  /\ cleared = FALSE
  /\ completion = "none"
  /\ dispatched = << >>
  /\ adjust_log = << >>
  /\ write_attempts = 0
  /\ yielded = << >>
  /\ ExtractionAtRest
  /\ StoreAtRest
  /\ WorkflowAtRest

Next ==
  \/ run_chat_stream
  \/ GraphRecursionError
  \/ node_load_preferences
  \/ node_planner
  \/ node_adjust_meal
  \/ node_retrieve_meals
  \/ node_provide_recipe
  \/ node_estimate_calories
  \/ node_general_chat
  \/ node_execute_tools
  \/ node_generate_response
  \/ node_extract_feedback

Spec == Init /\ [][Next]_vars

\* ------------------------------------------------- a node on any state
\* node_planner called on a state a caller built by hand, as the repository's
\* node-level scripts do: any plan and index, with or without values left by
\* earlier work in the result fields, final_messages and tool_outputs.
OldAdjustment ==
  [status |-> "success",
   message |-> << [params |-> "earlier", status |-> "success", origin |-> "old"] >>,
   new_daily_total |-> TRUE, origin |-> "old"]

OldMessage == [from |-> "calorie_estimation", index |-> 0, origin |-> "old"]

OldToolOutput == [tool |-> "search_foods", query |-> "q1", result |-> "data"]

NodeInit ==
  /\ pc = "planner"
  /\ steps = 0
  /\ confirmed = FALSE
  /\ plan \in PlanOutputs
  /\ current_step_index \in 0 .. Len(plan)
  /\ \E left \in BOOLEAN :
       /\ retrieved_data = IF left THEN << OldValue >> ELSE None
       /\ adjustment_result = IF left THEN << OldAdjustment >> ELSE None
       /\ recipe_result = IF left THEN << OldValue >> ELSE None
       /\ final_messages = IF left THEN << OldMessage >> ELSE << >>
       /\ tool_outputs = IF left THEN << OldToolOutput >> ELSE << >>
  /\ monitoring_warnings = << >>
  /\ response = EmptyResponse
  /\ tool_calls = << >>
  /\ active_node = ""
  /\ lookups = [q \in Queries |-> 0]
  /\ invoked = {}
  /\ store_written = FALSE
  /\ cleared = FALSE
  /\ completion = "none"
  /\ dispatched = << >>
  /\ adjust_log = << >>
  /\ write_attempts = 0
  /\ yielded = << >>
  /\ ExtractionAtRest
  /\ StoreAtRest
  /\ WorkflowAtRest

\* The nodes and the routing after each, without a thread to start a turn on.
NodeNext ==
  \/ GraphRecursionError
  \/ node_planner
  \/ node_adjust_meal
  \/ node_retrieve_meals
  \/ node_provide_recipe
  \/ node_estimate_calories
  \/ node_general_chat
  \/ node_execute_tools
  \/ node_generate_response
  \/ node_extract_feedback

NodeSpec == NodeInit /\ [][NodeNext]_vars

\* ------------------------------------------------- tool-call extraction
\* A completion as a sequence of tokens: the two braces, and stretches of text
\* without a brace: the members of a search_foods call with a query, those of
\* one without a query, those of an object that names another tool, and
\* anything that is no list of JSON members.
Braces == {"{", "}"}

Tokens == Braces \cup {"search:q1", "search", "other", "text"}

\* The completions of at most n tokens.
TextsUpTo(n) == SeqsUpTo(Tokens, n)

\* Where the match of \{[^{}]*\} that starts at the brace at s ends, or 0 when
\* there is none: the next brace behind s has to be a closing one.
MatchEnd(text, s) ==
  LET later == {k \in s + 1 .. Len(text) : text[k] \in Braces}
  IN IF later = {} THEN 0
     ELSE LET k == CHOOSE m \in later : \A n \in later : m <= n
          IN IF text[k] = "}" THEN k ELSE 0

\* re.finditer from position i on: the matches left to right, the search going
\* on behind the end of each; what is returned is what stands between the
\* braces of each match.
RECURSIVE finditer(_, _)
finditer(text, i) ==
  IF i > Len(text) THEN << >>
  ELSE IF text[i] = "{" /\ MatchEnd(text, i) # 0
       THEN << SubSeq(text, i + 1, MatchEnd(text, i) - 1) >>
              \o finditer(text, MatchEnd(text, i) + 1)
       ELSE finditer(text, i + 1)

\* json.loads of a match: the object, or nothing when the text between the
\* braces is not a list of members.
json_loads(body) ==
  IF body = << >> THEN << [tool |-> "", query |-> NoQuery] >>
  ELSE IF Len(body) # 1 THEN << >>
  ELSE IF body[1] = "search:q1" THEN << [tool |-> "search_foods", query |-> "q1"] >>
  ELSE IF body[1] = "search" THEN << QuerylessCall >>
  ELSE IF body[1] = "other" THEN << [tool |-> "log_meal", query |-> "q1"] >>
  ELSE << >>

\* The loop over the matches: a match that does not parse is passed over, an
\* object is kept when its tool is search_foods.
RECURSIVE found_tools(_)
found_tools(matches) ==
  IF matches = << >> THEN << >>
  ELSE LET tool_call == json_loads(Head(matches))
       IN (IF tool_call # << >> /\ tool_call[1].tool = "search_foods"
           THEN tool_call ELSE << >>) \o found_tools(Tail(matches))

\* A broken extraction that stops at the first match.
ExtractFirstMatchOnly(text) ==
  LET matches == finditer(text, 1)
  IN found_tools(IF matches = << >> THEN << >> ELSE << Head(matches) >>)

extract_tool_calls(text) == found_tools(finditer(text, 1))

\* What the handler returns for the completion: the tool calls when there are
\* any, and otherwise the completion as its terminal message.
HandlerReturn(text) ==
  LET found == extract_tool_calls(text)
  IN [tool_calls |-> found,
      final_messages |-> IF found # << >> THEN << >> ELSE << text >>]

HandlerCompletion ==
  /\ handler_return = << >>
  /\ handler_return' = << HandlerReturn(content) >>
  /\ UNCHANGED << content, router, store, workflow >>

ExtractInit ==
  /\ content \in TextsUpTo(MaxText)
  /\ handler_return = << >>
  /\ RouterAtRest
  /\ StoreAtRest
  /\ WorkflowAtRest

ExtractNext == HandlerCompletion

ExtractSpec == ExtractInit /\ [][ExtractNext]_vars

\* ------------------------------------------------- process_request on the store
\* meal.get("calories", 0): the field, or 0 when the object has none.
Field(n) == IF n.kind = "number" THEN n.value ELSE 0

\* Adding a value that is not a number to the running total raises.
Summable(meals) == \A i \in DOMAIN meals : meals[i].kind # "text"

RECURSIVE SumOf(_)
SumOf(meals) == IF meals = << >> THEN 0 ELSE Field(Head(meals)) + SumOf(Tail(meals))

\* round(v, 1) on a value in hundredths.
Round1(v) == ((v + 5) \div 10) * 10

\* A broken read that returns the first record of the day only.
DayMealsFirstOnly(meals) == << meals[SlotOrder[1]] >>

\* get_all_meal_details_for_day: the nutrition of every record of the day.
DayMeals(meals) == [i \in DOMAIN SlotOrder |-> meals[SlotOrder[i]]]

\* A call returns: its status, and the total it computed if it did; what it
\* had read is gone with it.
Returns(call, status, total) ==
  [call EXCEPT !.pc = "done", !.status = status, !.new_daily_total = total,
               !.snapshot = << >>]

\* process_request up to the model's answer: the day's plan or the meal of the
\* type is not found, or the model call or the parsing of its answer fails,
\* and the call returns an error; or the answer is the meal to store.
ProcessRequestBegins(p) ==
  /\ requests[p].pc = "idle"
  /\ \E slot \in Slots, found \in BOOLEAN, answer \in Nutritions \cup {IdleCall.meal_data} :
       LET begun == [IdleCall EXCEPT
                       !.slot = slot,
                       !.alone = \A q \in Procs \ {p} : requests[q].pc \in {"idle", "done"}]
           call == IF ~found \/ answer \notin Nutritions
                   THEN Returns(begun, "error", 0)
                   ELSE [begun EXCEPT !.pc = "update_meal_detail", !.meal_data = answer]
       IN requests' = [q \in Procs |->
                         IF q = p THEN call ELSE [requests[q] EXCEPT !.alone = FALSE]]
  /\ UNCHANGED << db, last_writer, router, extraction, workflow >>

\* update_meal_detail commits the new record, or fails and the call returns an
\* error.
update_meal_detail(p) ==
  /\ requests[p].pc = "update_meal_detail"
  /\ \E success \in BOOLEAN :
       IF success
       THEN /\ db' = [db EXCEPT !.meals[requests[p].slot] = requests[p].meal_data]
            /\ requests' =
                 [q \in Procs |->
                    IF q = p
                    THEN [requests[p] EXCEPT !.pc = "get_all_meal_details_for_day",
                                             !.wrote_record = TRUE]
                    ELSE IF requests[q].pc = "update_daily_nutrition"
                         THEN [requests[q] EXCEPT !.stale = TRUE]
                         ELSE requests[q]]
       ELSE /\ requests' = [requests EXCEPT ![p] = Returns(requests[p], "error", 0)]
            /\ UNCHANGED db
  /\ UNCHANGED << last_writer, router, extraction, workflow >>

\* get_all_meal_details_for_day returns the day's records, or the empty list
\* when the query fails.
get_all_meal_details_for_day(p) ==
  /\ requests[p].pc = "get_all_meal_details_for_day"
  /\ \E read \in BOOLEAN :
       requests' = [requests EXCEPT
                      ![p] = [requests[p] EXCEPT
                                !.pc = "update_daily_nutrition",
                                !.snapshot = IF read THEN DayMeals(db.meals) ELSE << >>,
                                !.read_failed = ~read]]
  /\ UNCHANGED << db, last_writer, router, extraction, workflow >>

\* The sum over the records read, rounded, is written as the day's total and
\* the call returns success whether or not the write went through; a record
\* that cannot be summed raises, and the call returns an error.
update_daily_nutrition(p) ==
  /\ requests[p].pc = "update_daily_nutrition"
  /\ IF ~Summable(requests[p].snapshot)
     THEN /\ requests' = [requests EXCEPT ![p] = Returns(requests[p], "error", 0)]
          /\ UNCHANGED << db, last_writer >>
     ELSE LET total_nutrition == Round1(SumOf(requests[p].snapshot))
          IN \E written \in BOOLEAN :
               /\ db' = IF written THEN [db EXCEPT !.total = total_nutrition] ELSE db
               /\ last_writer' = IF written THEN p ELSE last_writer
               /\ requests' =
                    [requests EXCEPT
                       ![p] = Returns([requests[p] EXCEPT !.wrote_total = written],
                                      "success", total_nutrition)]
  /\ UNCHANGED << router, extraction, workflow >>

StoreInit ==
  /\ db = InitialDay
  /\ requests = [p \in Procs |-> IdleCall]
  /\ last_writer = ""
  /\ RouterAtRest
  /\ ExtractionAtRest
  /\ WorkflowAtRest

StoreNext ==
  \E p \in Procs :
    \/ ProcessRequestBegins(p)
    \/ update_meal_detail(p)
    \/ get_all_meal_details_for_day(p)
    \/ update_daily_nutrition(p)

StoreSpec == StoreInit /\ [][StoreNext]_vars

\* ------------------------------------------------- the batch workflow
\* users_to_process is the number of users found; a user is its index in the
\* list; current_user and user_data hold the index of the user they are of.
WorkflowEnded == {"not_started", "END", "GraphRecursionError"}

WorkflowCanStep == wf_course.steps < WorkflowRecursionLimit

\* The graph stops a run that has used its step budget without reaching END.
WorkflowRecursionError ==
  /\ wf_pc \notin WorkflowEnded
  /\ ~WorkflowCanStep
  /\ wf_pc' = "GraphRecursionError"
  /\ UNCHANGED << wf, wf_course, router, extraction, store >>

WorkflowStep == [wf_course EXCEPT !.steps = @ + 1]

\* The query finds the users, or fails and the list stays empty;
\* check_users_available ends the run when there is none.
agent_fetch_users ==
  /\ wf_pc = "fetch_users"
  /\ WorkflowCanStep
  /\ \E found \in 0 .. MaxUsers :
       /\ wf' = [wf EXCEPT !.users_to_process = found, !.current_user_index = 0]
       /\ wf_course' = [WorkflowStep EXCEPT !.attempts = [u \in 1 .. found |-> 0]]
       /\ wf_pc' = IF found > 0 THEN "aggregate_data" ELSE "END"
  /\ UNCHANGED << router, extraction, store >>

\* The data of the user at current_user_index is gathered and current_user
\* and user_data are set, or a query fails and the state stays as it is.
agent_aggregate_user_data ==
  /\ wf_pc = "aggregate_data"
  /\ WorkflowCanStep
  /\ IF wf.users_to_process = 0 \/ wf.current_user_index >= wf.users_to_process
     THEN /\ wf' = wf
          /\ wf_course' = WorkflowStep
     ELSE /\ \E gathered \in BOOLEAN :
               wf' = IF gathered
                     THEN [wf EXCEPT !.current_user = << wf.current_user_index >>,
                                     !.user_data = << wf.current_user_index >>]
                     ELSE wf
          /\ wf_course' = [WorkflowStep EXCEPT !.attempts[wf.current_user_index + 1] = @ + 1]
  /\ wf_pc' = "generate_plan"
  /\ UNCHANGED << router, extraction, store >>

\* Without user_data the node does nothing; otherwise the plan is generated,
\* or the generation fails and generated_plan is None.
agent_generate_meal_plan ==
  /\ wf_pc = "generate_plan"
  /\ WorkflowCanStep
  /\ IF wf.user_data = << >>
     THEN wf' = wf
     ELSE \E generated \in BOOLEAN : wf' = [wf EXCEPT !.generated_plan = generated]
  /\ wf_course' = WorkflowStep
  /\ wf_pc' = "persist_plan"
  /\ UNCHANGED << router, extraction, store >>

\* One more try for the user, or the user counted as failed after max_retries.
CountRetry(state) ==
  IF state.retry_count + 1 <= max_retries
  THEN [state EXCEPT !.retry_count = @ + 1]
  ELSE [state EXCEPT !.failure_count = @ + 1, !.retry_count = 0]

\* The body of agent_persist_plan, saved telling whether save_meal_plan and the
\* schedule update went through.
PersistPlan(state, saved) ==
  IF state.current_user = << >> THEN state
  ELSE IF ~state.generated_plan \/ state.user_data = << >> THEN CountRetry(state)
  ELSE IF saved THEN [state EXCEPT !.success_count = @ + 1, !.retry_count = 0]
  ELSE CountRetry(state)

\* route_next_step: the branch it returns and the state as it leaves it.
route_next_step(state) ==
  IF state.retry_count > 0 /\ state.retry_count <= max_retries
  THEN [branch |-> "retry", state |-> state]
  ELSE LET moved == [state EXCEPT !.current_user_index = @ + 1, !.retry_count = 0,
                                  !.current_user = << >>, !.user_data = << >>,
                                  !.generated_plan = FALSE]
       IN [branch |-> IF moved.current_user_index < moved.users_to_process
                      THEN "next_user" ELSE "complete",
           state |-> moved]

\* agent_persist_plan and the routing behind it.  What route_next_step assigns
\* to the state it is given reaches the graph's state or does not, as the
\* graph library has it.
agent_persist_plan ==
  /\ wf_pc = "persist_plan"
  /\ WorkflowCanStep
  /\ \E saved \in BOOLEAN :
       LET persisted == PersistPlan(wf, saved)
           route == route_next_step(persisted)
       IN /\ wf' = IF wf_course.edge_writes = "kept" THEN route.state ELSE persisted
          /\ wf_pc' = IF route.branch = "complete" THEN "END" ELSE "aggregate_data"
  /\ wf_course' = WorkflowStep
  /\ UNCHANGED << router, extraction, store >>

WorkflowInit ==
  /\ wf = InitialWorkflowState
  /\ wf_pc = "fetch_users"
  /\ \E kept \in BOOLEAN :
       wf_course = [steps |-> 0, attempts |-> << >>,
                    edge_writes |-> IF kept THEN "kept" ELSE "dropped"]
  /\ RouterAtRest
  /\ ExtractionAtRest
  /\ StoreAtRest

WorkflowNext ==
  \/ agent_fetch_users
  \/ agent_aggregate_user_data
  \/ agent_generate_meal_plan
  \/ agent_persist_plan
  \/ WorkflowRecursionError

WorkflowSpec == WorkflowInit /\ [][WorkflowNext]_vars

\* ------------------------------------------------------------- claims
HasAdjustmentStep(pl) == \E i \in DOMAIN pl : pl[i].action = "meal_adjustment"

PlannerRan == pc = "planner" /\ steps' = steps + 1

\* C1: the planner, called with an empty plan and a non-empty final_messages,
\* returns with the plan still empty and final_messages kept, and decide_route
\* then gives generate_response.
C1_NoRegenerationWithResults ==
  [][(PlannerRan /\ plan = << >> /\ final_messages # << >>)
       => (/\ plan' = << >>
           /\ final_messages' = final_messages
           /\ pc' = "generate_response")]_vars

\* C2: within one turn _retrieve_context is called at most once for each
\* (tool, query) pair, and every later output for that pair is the synthetic
\* "already searched" result.
C2_ToolDedup ==
  /\ \A q \in Queries : lookups[q] <= 1
  /\ \A i, j \in DOMAIN tool_outputs :
       (i < j /\ tool_outputs[i].query = tool_outputs[j].query)
         => tool_outputs[j].result = "already_searched"

C2_Witness ==
  /\ \E i \in DOMAIN tool_outputs : tool_outputs[i].result = "already_searched"
  /\ \E q \in Queries : lookups[q] = 1
  /\ current_step_index > 0

\* C3: the handler <-> execute_tools sub-loop of a step is left after finitely
\* many iterations: a turn with a one-step plan is never cut off by the graph's
\* step budget before its handler has given its terminal completion.
C3_SubLoopTerminates ==
  ~(pc = "GraphRecursionError" /\ Len(plan) = 1 /\ final_messages = << >>)

\* C4: a handler invoked with tool_outputs that already hold (search_foods, q)
\* never returns tool_calls that hold (search_foods, q) again.
C4_NoRepeatedToolRequest ==
  \A i \in DOMAIN tool_calls :
    << tool_calls[i].tool, tool_calls[i].query >> \notin ExecutedQueries(tool_outputs)

\* C5: when the planner takes the fresh-plan branch, then on return
\* recipe_result, adjustment_result and retrieved_data are None and tool_calls
\* and tool_outputs are empty, whatever they held and whether the plan is the
\* model's or the fallback.
C5_FreshPlanResets ==
  [][(PlannerRan /\ FreshPlanBranch)
       => (/\ recipe_result' = None
           /\ adjustment_result' = None
           /\ retrieved_data' = None
           /\ tool_calls' = << >>
           /\ tool_outputs' = << >>)]_vars

C5_Witness ==
  /\ steps = 1
  /\ cleared
  /\ plan = FallbackPlan
  /\ recipe_result = None

\* C6: the response of a turn holds only results this turn's own steps
\* produced: nothing an earlier turn on the thread left in the checkpoint.
ThisTurn(s) == \A i \in DOMAIN s : s[i].origin = "new"

C6_NoCrossTurnLeak ==
  /\ ThisTurn(response.adjustment)
  /\ \A i \in DOMAIN response.adjustment : ThisTurn(response.adjustment[i].message)
  /\ ThisTurn(response.warnings)
  /\ ThisTurn(response.retrieved)
  /\ ThisTurn(response.recipe)
  /\ ThisTurn(response.message)

C6_Witness ==
  /\ pc = "END"
  /\ cleared
  /\ response.recipe # None
  /\ response.message # << >>

\* C7: on a state with a non-empty plan and current_step_index < len(plan) the
\* planner leaves the plan and every partial result as they are, calls no
\* model, and adds exactly 1 to current_step_index.
C7_PlannerReentry ==
  [][(PlannerRan /\ plan # << >> /\ current_step_index < Len(plan))
       => (/\ plan' = plan
           /\ retrieved_data' = retrieved_data
           /\ adjustment_result' = adjustment_result
           /\ recipe_result' = recipe_result
           /\ final_messages' = final_messages
           /\ monitoring_warnings' = monitoring_warnings
           /\ tool_outputs' = tool_outputs
           /\ "model" \notin invoked'
           /\ current_step_index' = current_step_index + 1)]_vars

C7_Witness ==
  /\ steps = 1
  /\ invoked = {}
  /\ current_step_index = 1
  /\ Len(plan) = 2
  /\ recipe_result # None
  /\ final_messages # << >>

\* C8: within one turn current_step_index never decreases and is never set
\* back to 0 by a node or a routing function.
C8_IndexMonotone ==
  [][pc' # "load_preferences" => current_step_index' >= current_step_index]_vars

C8_Witness ==
  /\ current_step_index = 2
  /\ pc = "generate_response"
  /\ tool_outputs # << >>

\* C9: once the planner has produced the turn's plan, no handler, tool-loop
\* run, planner re-entry or response aggregation changes it.
C9_PlanImmutable ==
  [][(pc' # "load_preferences" /\ ~(pc = "planner" /\ FreshPlanBranch))
       => plan' = plan]_vars

C9_Witness ==
  /\ pc = "planner"
  /\ active_node = "calorie_estimation"
  /\ tool_outputs # << >>
  /\ final_messages # << >>
  /\ Len(plan) = 2

\* C10: the plan holds a meal_adjustment step only when the previous assistant
\* message asked for confirmation and the utterance affirms it; otherwise no
\* meal_adjustment handler runs and the meal store is not written in the turn.
C10_ConfirmationGate ==
  ~confirmed => (~HasAdjustmentStep(plan) /\ ~store_written)

\* C11: when the planning completion is no valid JSON or no JSON list, or the
\* model call fails, node_planner returns the one-step general_chat fallback
\* plan with current_step_index = 0.
C11_PlannerFallback ==
  [][(PlannerRan /\ FreshPlanBranch /\ completion' # "list")
       => (plan' = FallbackPlan /\ current_step_index' = 0)]_vars

\* C12: a failure of the model call inside a handler never leaves the graph
\* run as an exception: no turn ends in UpstreamError.
C12_NoExceptionEscapes == pc # "UpstreamError"

\* C13: after any of the five handlers returns with no pending tool calls, the
\* next node is the planner.
HandlerReturned == pc \in KnownActions /\ steps' = steps + 1 /\ pc' # "UpstreamError"

C13_AdvanceAfterStep ==
  [][(HandlerReturned /\ tool_calls' = << >>) => pc' = "planner"]_vars

\* C14: when the response aggregator is reached, every step of the plan has
\* been dispatched to its handler exactly once, in plan order.
AllDispatched == dispatched = [i \in 1 .. Len(plan) |-> i - 1]

C14_WholePlanInOrder == pc = "generate_response" => AllDispatched

\* C15: a handler that returns tool calls is followed by execute_tools with
\* current_step_index unchanged, and execute_tools is followed by the handler
\* that emitted the calls, which is the handler of the current step and the
\* one active_node names.
HandlerOfCurrentStep ==
  IF CurrentStep.action = "calorie_estimation" THEN "calorie_estimation" ELSE "general_chat"

C15_ToolLoopReturn ==
  [][/\ (HandlerReturned /\ tool_calls' # << >>)
          => (/\ pc' = "execute_tools"
              /\ current_step_index' = current_step_index
              /\ active_node' = pc
              /\ pc = HandlerOfCurrentStep)
     /\ (pc = "execute_tools" /\ steps' = steps + 1 /\ pc' # "KeyError")
          => (/\ pc' = active_node
              /\ pc' = HandlerOfCurrentStep
              /\ active_node' = active_node
              /\ current_step_index' = current_step_index)]_vars

C15_Witness ==
  /\ pc = "calorie_estimation"
  /\ active_node = "calorie_estimation"
  /\ tool_outputs # << >>
  /\ tool_calls = << >>
  /\ current_step_index = 1
  /\ plan[1].action = "meal_retrieval"

\* C16: decide_route gives generate_response exactly when current_step_index >=
\* len(plan); otherwise the handler the step's action names when it is one of
\* the five, and general_chat for any other action value.
C16_DispatchTable ==
  [][PlannerRan
       => LET pl == plan'
              idx == current_step_index'
              FiveActions == {"meal_adjustment", "meal_retrieval", "calorie_estimation",
                              "general_chat", "recipe_lookup"}
          IN /\ (pc' = "generate_response") <=> (idx >= Len(pl))
             /\ (idx < Len(pl) /\ pl[idx + 1].action \in FiveActions)
                  => pc' = pl[idx + 1].action
             /\ (idx < Len(pl) /\ pl[idx + 1].action \notin FiveActions \cup {NotAnObject})
                  => pc' = "general_chat"]_vars

C16_Witness ==
  /\ pc = "general_chat"
  /\ steps = 1
  /\ current_step_index = 1
  /\ Len(plan) = 2
  /\ CurrentStep.action = UnknownAction

\* C17: when every step of the plan has run, the response holds the output of
\* every meal_retrieval step of the plan, in plan order, whatever other steps
\* the plan contains.
RetrievalOutputs(pl) ==
  LET steps_ == SelectSeq(pl, LAMBDA st : st.action = "meal_retrieval")
  IN [i \in DOMAIN steps_ |-> [params |-> steps_[i].params, origin |-> "new"]]

C17_RetrievalAccumulates ==
  (pc = "extract_feedback" /\ AllDispatched) => response.retrieved = RetrievalOutputs(plan)

\* C18: for a plan with several meal_adjustment steps, all of them run, the
\* message of the adjustment result the aggregator sees is the concatenation,
\* in plan order, of the status messages of all of those steps.
AdjustmentSteps(pl) == {i \in DOMAIN pl : pl[i].action = "meal_adjustment"}

C18_AdjustmentMessagesConcatenate ==
  (/\ pc = "generate_response"
   /\ completion # "none"
   /\ AllDispatched
   /\ Cardinality(AdjustmentSteps(plan)) >= 2)
    => (adjustment_result # None /\ adjustment_result[1].message = adjust_log)

\* C19: a meal_adjustment step that finds no meal plan or no meal of the type,
\* or whose write fails, yields a result of status error; each step tries its
\* write at most once; and the final response holds the error message.
PersistenceErrors == {"not_found", "write_failed"}

C19_PersistenceErrorSurfaced ==
  /\ (adjust_log # << >> /\ adjust_log[Len(adjust_log)].status \in PersistenceErrors
        /\ adjustment_result # None)
       => adjustment_result[1].status = "error"
  /\ write_attempts =
       Cardinality({i \in DOMAIN adjust_log : adjust_log[i].status \in {"success", "write_failed"}})
  /\ pc = "END"
       => \A i \in DOMAIN adjust_log :
            adjust_log[i].status \in PersistenceErrors
              => (/\ response.adjustment # None
                  /\ \E k \in DOMAIN response.adjustment[1].message :
                       response.adjustment[1].message[k] = adjust_log[i])

\* C20: the response carries the confirmation prompt exactly when the last
\* step that ran was calorie_estimation.
LastStepRan == plan[dispatched[Len(dispatched)] + 1]

C20_ConfirmationPrompt ==
  pc = "extract_feedback"
    => (response.confirm_prompt
          <=> (dispatched # << >> /\ LastStepRan.action = "calorie_estimation"))

RECURSIVE TerminalMessages(_, _)
TerminalMessages(pl, i) ==
  IF i > Len(pl) THEN << >>
  ELSE (IF decide_route(pl, i - 1) \in {"calorie_estimation", "general_chat"}
        THEN << [from |-> decide_route(pl, i - 1), index |-> i - 1, origin |-> "new"] >>
        ELSE << >>) \o TerminalMessages(pl, i + 1)

C22_FinalMessagesAppendOnly ==
  (pc = "extract_feedback" /\ AllDispatched)
    => (/\ final_messages = TerminalMessages(plan, 1)
        /\ response.message = final_messages)

\* C23: a step that changes retrieved_data, adjustment_result or recipe_result
\* is a step of the field's own handler, of the planner, or the start of a
\* turn; every other node leaves the three fields as they are.
C23_SingleWriter ==
  [][/\ retrieved_data' # retrieved_data
          => (pc \in {"meal_retrieval", "planner"} \/ pc \in Ended)
     /\ adjustment_result' # adjustment_result
          => (pc \in {"meal_adjustment", "planner"} \/ pc \in Ended)
     /\ recipe_result' # recipe_result
          => (pc \in {"recipe_lookup", "planner"} \/ pc \in Ended)]_vars

\* C24: one execution of node_execute_tools leaves tool_outputs as the outputs
\* so far followed by one output per pending call, in the order of the calls,
\* and leaves tool_calls empty; no step inside a turn shortens tool_outputs.
C24_ToolLoopPostcondition ==
  [][/\ (pc = "execute_tools" /\ steps' = steps + 1)
          => (/\ tool_calls' = << >>
              /\ Len(tool_outputs') = Len(tool_outputs) + Len(tool_calls)
              /\ \A i \in DOMAIN tool_calls :
                   /\ tool_outputs'[Len(tool_outputs) + i].tool = tool_calls[i].tool
                   /\ tool_outputs'[Len(tool_outputs) + i].query = tool_calls[i].query)
     /\ pc \notin Ended
          => (/\ Len(tool_outputs') >= Len(tool_outputs)
              /\ SubSeq(tool_outputs', 1, Len(tool_outputs)) = tool_outputs)]_vars

\* C29: node_execute_tools never raises, whatever list of search_foods objects
\* the extraction hands it and whatever the retrieval does; a retrieval that
\* fails becomes an error result in tool_outputs.
C29_ToolLoopNeverRaises ==
  /\ pc # "KeyError"
  /\ \A i \in DOMAIN tool_outputs :
       tool_outputs[i].result \in RetrievalResults \cup {"already_searched"}

\* C25: the handler's tool_calls is the subsequence, in text order, of the
\* brace-delimited candidates of the completion that parse as an object whose
\* tool is search_foods; the other candidates are dropped; and when no
\* candidate is kept the completion is the terminal message and tool_calls is
\* empty.
Candidates(text) ==
  {c \in (DOMAIN text) \X (DOMAIN text) :
     /\ c[1] < c[2]
     /\ text[c[1]] = "{"
     /\ text[c[2]] = "}"
     /\ \A k \in c[1] + 1 .. c[2] - 1 : text[k] \notin Braces}

CandidateObject(text, c) == json_loads(SubSeq(text, c[1] + 1, c[2] - 1))

KeptCandidates(text) ==
  {c \in Candidates(text) :
     /\ CandidateObject(text, c) # << >>
     /\ CandidateObject(text, c)[1].tool = "search_foods"}

\* The i-th kept candidate in text order.
KeptAt(text, i) ==
  CHOOSE c \in KeptCandidates(text) :
    Cardinality({d \in KeptCandidates(text) : d[1] < c[1]}) = i - 1

C25_ToolCallExtraction ==
  handler_return # << >>
    => LET ret == handler_return[1]
           kept == KeptCandidates(content)
       IN /\ Len(ret.tool_calls) = Cardinality(kept)
          /\ \A i \in DOMAIN ret.tool_calls :
               ret.tool_calls[i] = CandidateObject(content, KeptAt(content, i))[1]
          /\ kept = {} => (ret.tool_calls = << >> /\ ret.final_messages = << content >>)
          /\ kept # {} => ret.final_messages = << >>

C25_Witness ==
  /\ handler_return # << >>
  /\ Cardinality(Candidates(content)) = 2
  /\ Cardinality(KeptCandidates(content)) = 1
  /\ Len(handler_return[1].tool_calls) = 1

\* C26: nothing serialises the read-modify-write of the day's total: after two
\* concurrent calls that both succeeded, the stored total is the one computed by
\* the call that wrote last, and it differs from the sum of the stored records
\* only when the other call replaced a record after the last writer had read
\* the day's records; and such an interleaving exists.
StoredSum == SumOf([i \in 1 .. Cardinality(Slots) |-> db.meals[SlotOrder[i]]])

BothSucceeded ==
  \A p \in Procs :
    /\ requests[p].pc = "done"
    /\ requests[p].status = "success"
    /\ requests[p].wrote_total
    /\ ~requests[p].read_failed

C26_LostUpdate ==
  BothSucceeded
    => (/\ last_writer \in Procs
        /\ db.total = requests[last_writer].new_daily_total
        /\ db.total # Round1(StoredSum) => requests[last_writer].stale)

C26_Witness ==
  /\ BothSucceeded
  /\ db.total # StoredSum
  /\ db.total # Round1(StoredSum)

\* C27: after a call that ran alone and returned success, the stored total is
\* the sum over the stored records of the day, a missing field counting as 0,
\* and the returned new_daily_total is the stored total.
C27_TotalEqualsSum ==
  \A p \in Procs :
    (requests[p].pc = "done" /\ requests[p].status = "success" /\ requests[p].alone)
      => (/\ db.total = StoredSum
          /\ requests[p].new_daily_total = db.total)

\* C28: a call that returns status error has modified neither the meal record
\* nor the day's total.
C28_ErrorLeavesStoreUnchanged ==
  \A p \in Procs :
    (requests[p].pc = "done" /\ requests[p].status = "error")
      => (~requests[p].wrote_record /\ ~requests[p].wrote_total)

\* C30: whatever fails, the batch workflow ends, no user is attempted more than
\* max_retries + 1 times, and at the end success_count + failure_count is the
\* number of users found.
C30_BatchAccounting ==
  /\ wf_pc # "GraphRecursionError"
  /\ \A u \in DOMAIN wf_course.attempts : wf_course.attempts[u] <= max_retries + 1
  /\ wf_pc = "END" => wf.success_count + wf.failure_count = wf.users_to_process
====
